---- MODULE Spec2Model ----
(***************************************************************************)
(* A model of airtable/client.py: the AirTableCachingClient record         *)
(* transcoder (_process_records_from_at, _process_records_for_at), the     *)
(* chunked / paginated HTTP operations (get, write, update, delete) and    *)
(* the record matcher (match_at_rec_id).                                   *)
(*                                                                         *)
(* Three specifications share the module:                                  *)
(*   SpecCodec  - the two transcoder functions applied to bounded inputs   *)
(*   Spec       - one client issuing get/write/update/delete calls, one    *)
(*                HTTP request per step, against an arbitrary service      *)
(*   SpecMatch  - match_at_rec_id, one loop iteration per step             *)
(***************************************************************************)
EXTENDS Integers, Sequences, FiniteSets, TLC

VARIABLES
    \* ---- transcoder (SpecCodec) ----
    cpc,        \* "idle" | "encoded" | "roundtrip" | "decoded"
    rowsIn,     \* argument `records` of _process_records_for_at
    keepNone,   \* argument keep_none
    isNew,      \* argument new
    encOut,     \* outcome of _process_records_for_at
    decIn,      \* argument `records` of _process_records_from_at
    keepId,     \* argument keep_id
    decOut,     \* outcome of _process_records_from_at
    \* ---- match_at_rec_id (SpecMatch) ----
    mpc,        \* "idle" | "loop" | "returned" | "raised"
    heap,       \* the row objects of data_wo_id, by object identity 1..n
    data_wo_id, \* the caller's list: references to the row objects
    data_w_id,  \* the rows that carry an at_record_id
    keys,       \* the key set
    updated,    \* the list `updated` (references)
    it,         \* index the iterator of `for rec in updated` reads next (0-based)
    missing_id, \* the list `missing_id`
    not_updated,\* the list `not_updated` (references)
    examined,   \* the row objects the loop body has run for
    \* ---- the client and its HTTP operations (Spec) ----
    cache_token,  \* self._cache_token is not None
    self_base,    \* self._base ("" when the attribute was never set)
    self_process, \* self._process
    headers,      \* the names in the dict self.__headers
    pc,           \* "idle" | "get" | "write" | "update" | "delete" | "returned" | "raised"
    args,         \* the arguments of the call in progress (or last made)
    url,          \* local url: [endpoint, base]
    process,      \* local process, resolved
    params,       \* local params of get: [view, offset], "" for a key not set
    offset,       \* local offset of get: "True", "None" or the string received
    chunks,       \* local chunks of write / update / delete
    ci,           \* number of chunks the for loop has taken
    records,      \* local records, the accumulator
    sent,         \* the HTTP requests the call has issued, in order
    responses,    \* the responses it received, in order
    logged,       \* the messages the call gave to self._logger.error, in order
    result        \* outcome of the call: [status, value]

codecVars == <<cpc, rowsIn, keepNone, isNew, encOut, decIn, keepId, decOut>>
clientVars == <<cache_token, self_base, self_process, headers, pc, args, url, process,
                params, offset, chunks, ci, records, sent, responses, logged, result>>
matchVars == <<mpc, heap, data_wo_id, data_w_id, keys, updated, it, missing_id,
               not_updated, examined>>

(***************************************************************************)
(* Bounds of the model.                                                    *)
(***************************************************************************)
MaxRows == 2        \* longest multi-row input of the transcoder
MaxWithout == 3     \* longest data_wo_id
MaxWith == 2        \* longest data_w_id
MaxRecords == 21    \* longest data / list_of_ids of write, update and delete
MaxPages == 3       \* most page requests of one get

(***************************************************************************)
(* Python values.  Every value is a record of one shape:                   *)
(*   kind  - the Python type                                               *)
(*   v     - the scalar's value; for a dict the value stored under the key *)
(*           "specialValue" ("" stands for any falsy value)                *)
(*   sv    - for a dict: whether it has the key "specialValue"             *)
(*   extra - for a dict: whether it has keys other than "specialValue"     *)
(* NaN is one value here, so = on values is the "is-NaN" comparison.       *)
(***************************************************************************)
Scalar(kind, v) == [kind |-> kind, v |-> v, sv |-> FALSE, extra |-> FALSE]
Dict(hasSV, v, extra) == [kind |-> "dict", v |-> v, sv |-> hasSV, extra |-> extra]

None == Scalar("null", "")
PosInf == Scalar("float", "inf")
NegInf == Scalar("float", "-inf")
NaN == Scalar("float", "nan")
NonFinite == {PosInf, NegInf, NaN}

\* the tagged object {"specialValue": tag}
Tagged(tag) == Dict(TRUE, tag, FALSE)

ScalarValues ==
    { None, Scalar("int", "1"), Scalar("str", "x"), Scalar("bool", "True"),
      Scalar("float", "1.5"), PosInf, NegInf, NaN }

\* what a caller may put in a flat row
RowValues ==
    ScalarValues \cup { Scalar("array", "[1]"), Dict(FALSE, "", TRUE), Tagged("Infinity") }

\* what the service may put in a record's fields
SpecialTags == {"Infinity", "-Infinity", "NaN"}
WireDicts ==
    { Dict(FALSE, "", e) : e \in BOOLEAN }
    \cup { Dict(TRUE, t, e) : t \in SpecialTags \cup {"", "Foo"}, e \in BOOLEAN }
WireValues ==
    { None, Scalar("int", "1"), Scalar("str", "x"), Scalar("bool", "True"),
      Scalar("float", "1.5"), Scalar("array", "[1]") } \cup WireDicts

at_rec_id == "at_record_id"
RecordIds == { Scalar("str", "recA"), Scalar("str", "recB") }
FieldKeys == {"a", "b"}

\* the dict d without the key k
Without(d, k) == [x \in DOMAIN d \ {k} |-> d[x]]

(***************************************************************************)
(* _process_records_from_at                                                *)
(***************************************************************************)
\* `type(v) == dict and v.get("specialValue")`
HasSpecialValue(v) == v.kind = "dict" /\ v.sv /\ v.v # ""

\* the keys of row["fields"] that are assigned into newrow: a dict with a
\* truthy specialValue that is none of the three tags is assigned nowhere
AssignedKeys(fields) ==
    { k \in DOMAIN fields : HasSpecialValue(fields[k]) => fields[k].v \in SpecialTags }

\* DecodeValue with the sign of -Infinity lost
DecodeValue_LosesSign(v) ==
    IF HasSpecialValue(v)
    THEN CASE v.v \in {"Infinity", "-Infinity"} -> PosInf
           [] OTHER -> NaN
    ELSE v

DecodeValue(v) ==
    IF HasSpecialValue(v)
    THEN CASE v.v = "Infinity" -> PosInf
           [] v.v = "-Infinity" -> NegInf
           [] OTHER -> NaN
    ELSE v

\* one iteration of the outer loop, for a row that has the keys it reads
FromAtRow(row, keep_id) ==
    LET assigned == AssignedKeys(row.fields)
        newkeys == assigned \cup (IF keep_id THEN {at_rec_id} ELSE {})
    IN  [k \in newkeys |-> IF k \in assigned THEN DecodeValue(row.fields[k]) ELSE row.id]

\* row["id"] or row["fields"] raises KeyError
FromAtRowFails(row, keep_id) ==
    \/ keep_id /\ "id" \notin DOMAIN row
    \/ "fields" \notin DOMAIN row

process_records_from_at(recs, keep_id) ==
    IF \E i \in 1..Len(recs) : FromAtRowFails(recs[i], keep_id)
    THEN [status |-> "KeyError", value |-> <<>>]
    ELSE [status |-> "ok",
          value |-> [i \in 1..Len(recs) |-> FromAtRow(recs[i], keep_id)]]

(***************************************************************************)
(* _process_records_for_at                                                 *)
(***************************************************************************)
\* ResolveNone ignoring keep_none
ResolveNone_AlwaysDrops(row, keep_none) ==
    [k \in {x \in DOMAIN row : row[x] # None} |-> row[k]]

\* step 1: resolve None values
ResolveNone(row, keep_none) ==
    IF keep_none THEN row
    ELSE [k \in {x \in DOMAIN row : row[x] # None} |-> row[k]]

\* EncodeValue testing isinf(v) and v > 0 only
EncodeValue_PositiveOnly(v) ==
    IF v.kind = "float"
    THEN CASE v.v = "inf" -> Tagged("Infinity")
           [] v.v = "nan" -> Tagged("NaN")
           [] OTHER -> v
    ELSE v

\* step 2: format specialValues for AT
EncodeValue(v) ==
    IF v.kind = "float"
    THEN CASE v.v = "inf" -> Tagged("Infinity")
           [] v.v = "-inf" -> Tagged("-Infinity")
           [] v.v = "nan" -> Tagged("NaN")
           [] OTHER -> v
    ELSE v

FormatSpecial(newrow) == [k \in DOMAIN newrow |-> EncodeValue(newrow[k])]

\* ForAtRecord leaving the reserved key among the fields
ForAtRecord_KeepsId(newrow, new) ==
    IF new THEN [fields |-> newrow]
    ELSE [id |-> newrow[at_rec_id], fields |-> newrow]

\* step 3: create AT data record format
ForAtRecord(newrow, new) ==
    IF new THEN [fields |-> newrow]
    ELSE [id |-> newrow[at_rec_id], fields |-> Without(newrow, at_rec_id)]

\* newrow[self._at_rec_id] raises KeyError
ForAtRowFails(row, keep_none, new) ==
    ~new /\ at_rec_id \notin DOMAIN ResolveNone(row, keep_none)

ForAtRow(row, keep_none, new) ==
    ForAtRecord(FormatSpecial(ResolveNone(row, keep_none)), new)

\* wrapped: the result is {"records": records} rather than the bare list
process_records_for_at(rows, keep_none, new) ==
    IF \E i \in 1..Len(rows) : ForAtRowFails(rows[i], keep_none, new)
    THEN [status |-> "KeyError", wrapped |-> FALSE, records |-> <<>>]
    ELSE [status |-> "ok", wrapped |-> ~new,
          records |-> [i \in 1..Len(rows) |-> ForAtRow(rows[i], keep_none, new)]]

(***************************************************************************)
(* Inputs of the transcoder.                                               *)
(***************************************************************************)
DictsOver(names, values) == UNION { [K -> values] : K \in SUBSET names }

\* a flat row: fields a, b, and optionally the reserved key holding a record
\* identifier (a string) or None
FlatRows ==
    { [k \in DOMAIN f \cup DOMAIN r |-> IF k \in DOMAIN f THEN f[k] ELSE r[k]] :
        f \in DictsOver(FieldKeys, RowValues),
        r \in DictsOver({at_rec_id}, RecordIds \cup {None}) }

\* the rows multi-row inputs are made of
PoolRows ==
    { [a |-> Scalar("int", "1"), at_record_id |-> Scalar("str", "recA")],
      [a |-> NaN, b |-> None, at_record_id |-> Scalar("str", "recB")],
      [b |-> PosInf],
      [a |-> None, at_record_id |-> None] }

SeqsOf(S, lo, hi) == UNION { [1..n -> S] : n \in lo..hi }

RowInputs == SeqsOf(FlatRows, 0, 1) \cup SeqsOf(PoolRows, 2, MaxRows)

\* a service record {"id": ..., "fields": {...}}
ServiceRecords ==
    { [id |-> i, fields |-> f] : i \in RecordIds, f \in DictsOver(FieldKeys, WireValues) }

PoolRecords ==
    { [id |-> Scalar("str", "recA"), fields |-> [a |-> Tagged("NaN"), b |-> None]],
      [id |-> Scalar("str", "recB"), fields |-> [a |-> Tagged("Foo")]],
      [id |-> Scalar("str", "recB"), fields |-> [b |-> Scalar("str", "x")]] }

WireInputs == SeqsOf(ServiceRecords, 0, 1) \cup SeqsOf(PoolRecords, 2, MaxRows)

(***************************************************************************)
(* SpecCodec: the transcoder functions applied to the inputs above.        *)
(***************************************************************************)
NoEnc == [status |-> "none", wrapped |-> FALSE, records |-> <<>>]
NoDec == [status |-> "none", value |-> <<>>]

CodecIdle ==
    /\ cpc = "idle"
    /\ rowsIn = <<>>
    /\ keepNone = FALSE
    /\ isNew = FALSE
    /\ encOut = NoEnc
    /\ decIn = <<>>
    /\ keepId = TRUE
    /\ decOut = NoDec

\* a call _process_records_for_at(R, keep_none=kn, new=nw)
CallForAt ==
    /\ cpc = "idle"
    /\ \E R \in RowInputs, kn \in BOOLEAN, nw \in BOOLEAN :
        /\ cpc' = "encoded"
        /\ rowsIn' = R
        /\ keepNone' = kn
        /\ isNew' = nw
        /\ encOut' = process_records_for_at(R, kn, nw)
        /\ decIn' = <<>>
        /\ keepId' = TRUE
        /\ decOut' = NoDec
    /\ UNCHANGED <<matchVars, clientVars>>

\* _process_records_from_at applied to the list a call with new=True returned
CallFromAtOnEncoded ==
    /\ cpc = "encoded"
    /\ encOut.status = "ok"
    /\ ~encOut.wrapped
    /\ \E kid \in BOOLEAN :
        /\ cpc' = "roundtrip"
        /\ decIn' = encOut.records
        /\ keepId' = kid
        /\ decOut' = process_records_from_at(encOut.records, kid)
    /\ UNCHANGED <<rowsIn, keepNone, isNew, encOut>>
    /\ UNCHANGED <<matchVars, clientVars>>

\* a call _process_records_from_at(recs, keep_id=kid) on records of the service
CallFromAt ==
    /\ cpc = "idle"
    /\ \E recs \in WireInputs, kid \in BOOLEAN :
        /\ cpc' = "decoded"
        /\ decIn' = recs
        /\ keepId' = kid
        /\ decOut' = process_records_from_at(recs, kid)
        /\ rowsIn' = <<>>
        /\ keepNone' = FALSE
        /\ isNew' = FALSE
        /\ encOut' = NoEnc
    /\ UNCHANGED <<matchVars, clientVars>>


(***************************************************************************)
(* match_at_rec_id.  A row is [uid, grp, rid]: two data fields and the     *)
(* at_record_id, rid = 0 standing for a row without the key at_record_id.  *)
(* Rows of data_wo_id are objects: `updated` is a shallow copy, so both    *)
(* lists refer to the same rows and the loop changes them in place.        *)
(***************************************************************************)
MatchKeys == {"uid", "grp"}
KeySets == SUBSET MatchKeys \ {{}}

FieldValues == {1, 2}
RowsWithoutId == [uid : FieldValues, grp : FieldValues, rid : {0}]

\* data_w_id inputs: the j-th row carries the identifier j
WithIdInputs ==
    { [j \in 1..Len(f) |-> [uid |-> f[j].uid, grp |-> f[j].grp, rid |-> j]] :
        f \in SeqsOf(RowsWithoutId, 0, MaxWith) }

\* filter(lambda d: all(d[key] == rec[key] for key in keys), data_w_id),
\* as the indices of the rows that pass
rec_id_list(rec, w_id, ks) ==
    { j \in 1..Len(w_id) : \A k \in ks : w_id[j][k] = rec[k] }

\* len(rec_id_list) > 1: never raises
Ambiguous_Never(matches) == FALSE

\* len(rec_id_list) > 1
Ambiguous(matches) == Cardinality(matches) > 1

\* rec_id_list[0]
FirstOf(matches) == CHOOSE j \in matches : \A m \in matches : j <= m

\* uid = {k: rec[k] for k in keys}
UidOf(rec, ks) == [k \in ks |-> rec[k]]

\* list.remove(x): the list without its first element equal to x (== on the
\* dicts the references point to)
RemoveFirstEqual(list, x, h) ==
    LET p == CHOOSE i \in 1..Len(list) :
                 /\ h[list[i]] = h[x]
                 /\ \A m \in 1..(i - 1) : h[list[m]] # h[x]
    IN  [i \in 1..(Len(list) - 1) |-> IF i < p THEN list[i] ELSE list[i + 1]]

MatchIdle ==
    /\ mpc = "idle"
    /\ heap = <<>>
    /\ data_wo_id = <<>>
    /\ data_w_id = <<>>
    /\ keys = {}
    /\ updated = <<>>
    /\ it = 0
    /\ missing_id = <<>>
    /\ not_updated = <<>>
    /\ examined = {}

\* lines 504-506: the call, up to the loop
CallMatch ==
    /\ mpc = "idle"
    /\ \E wo \in SeqsOf(RowsWithoutId, 0, MaxWithout), w \in WithIdInputs, ks \in KeySets :
        /\ mpc' = "loop"
        /\ heap' = wo
        /\ data_wo_id' = [i \in 1..Len(wo) |-> i]
        /\ data_w_id' = w
        /\ keys' = ks
        /\ updated' = [i \in 1..Len(wo) |-> i]
        /\ it' = 0
        /\ missing_id' = <<>>
        /\ not_updated' = <<>>
        /\ examined' = {}
    /\ UNCHANGED <<codecVars, clientVars>>

\* lines 507-525: one iteration of `for rec in updated`
MatchIter ==
    /\ mpc = "loop"
    /\ it < Len(updated)
    /\ LET rec == updated[it + 1]
           matches == rec_id_list(heap[rec], data_w_id, keys)
       IN  /\ it' = it + 1
           /\ examined' = examined \cup {rec}
           /\ IF matches # {}
              THEN IF Ambiguous(matches)
                   THEN /\ mpc' = "raised"
                        /\ UNCHANGED <<heap, updated, missing_id, not_updated>>
                   ELSE /\ mpc' = "loop"
                        /\ heap' = [heap EXCEPT ![rec].rid = data_w_id[FirstOf(matches)].rid]
                        /\ UNCHANGED <<updated, missing_id, not_updated>>
              ELSE /\ mpc' = "loop"
                   /\ missing_id' = Append(missing_id, UidOf(heap[rec], keys))
                   /\ not_updated' = Append(not_updated, rec)
                   /\ updated' = RemoveFirstEqual(updated, rec, heap)
                   /\ UNCHANGED heap
    /\ UNCHANGED <<data_wo_id, data_w_id, keys>>
    /\ UNCHANGED <<codecVars, clientVars>>

\* line 526: the iterator is exhausted, the three lists are returned
MatchReturn ==
    /\ mpc = "loop"
    /\ it >= Len(updated)
    /\ mpc' = "returned"
    /\ UNCHANGED <<heap, data_wo_id, data_w_id, keys, updated, it, missing_id,
                   not_updated, examined>>
    /\ UNCHANGED <<codecVars, clientVars>>

(***************************************************************************)
(* The client: __init__, get, write, update, delete.  A call runs from its *)
(* first line to its first HTTP request in one step, and then from each    *)
(* response to the next request, the return or the raise in one step.      *)
(***************************************************************************)
\* n = 10  # current limit per request
ChunkSize == 10

BaseHeaders == {"Authorization", "Content-Type"}
CacheHeader == {"X-Mw-Bearer"}

Min(a, b) == IF a < b THEN a ELSE b

\* [data[i : i + n] for i in range(0, len(data), n)] with chunks cut one
\* element early
ChunksOf_OffByOne(data, n) ==
    [c \in 1..((Len(data) + n - 1) \div n) |->
        SubSeq(data, (c - 1) * n + 1, Min(c * n, Len(data)) - 1)]

\* [data[i : i + n] for i in range(0, len(data), n)]
ChunksOf(data, n) ==
    [c \in 1..((Len(data) + n - 1) \div n) |->
        SubSeq(data, (c - 1) * n + 1, Min(c * n, Len(data)))]

\* r.status_code != 200, ignored
IsFailure_Never(status) == FALSE

\* r.status_code != 200
IsFailure(status) == status # 200

\* the condition of `while offset:` ignoring the value received
Truthy_Always(off) == TRUE

\* truth value of offset: True and non-empty strings are truthy, None and ""
\* are not
Truthy(off) == off \notin {"None", ""}

\* self._base if self._base else base: the default taken before the argument
ResolveBase_DefaultFirst(base) == IF self_base # "" THEN self_base ELSE base

\* base if base else self._base; "" when that raises AttributeError
ResolveBase(base) == IF base # "" THEN base ELSE self_base

\* the test of line 273 left out: direct stays what the caller passed
ResolveDirect_KeepsFlag(dir) == dir

\* if self._cache_token is None: direct = True
ResolveDirect(dir) == IF ~cache_token THEN TRUE ELSE dir

\* records.extend(more) putting the new records in front of the list
Extend_Prepends(recs, more) == more \o recs

\* records.extend(more): the list grows at its end
Extend(recs, more) == recs \o more

\* params.update({"offset": offset}) done for the first offset only
PageParams_KeepsFirst(ps, off) ==
    IF off # "True" /\ ps.offset = "" THEN [ps EXCEPT !.offset = off] ELSE ps

\* if offset and offset is not True: params.update({"offset": offset})
PageParams(ps, off) == IF off # "True" THEN [ps EXCEPT !.offset = off] ELSE ps

\* self._process if process is None else process
ResolveProcess(proc) == IF proc = "None" THEN self_process ELSE proc = "True"

NoResult == [status |-> "none", value |-> <<>>]
NoUrl == [endpoint |-> "", base |-> ""]
NoParams == [view |-> "", offset |-> ""]
NoArgs == [op |-> "none"]

\* ---- inputs ----
IntValue(i) == Scalar("int", ToString(i))
IdValue(i) == Scalar("str", ToString(i))

\* the i-th flat row of a data argument: a distinct value under a, a value
\* under b that needs transcoding every so often, and the reserved key if
\* withIds
RowAt(i, withIds) ==
    LET f == [a |-> IntValue(i),
              b |-> CASE i % 3 = 0 -> None [] i % 3 = 1 -> NegInf [] OTHER -> Scalar("str", "x")]
    IN  IF withIds
        THEN [k \in {"a", "b", at_rec_id} |-> IF k = at_rec_id THEN IdValue(i) ELSE f[k]]
        ELSE f

RowsOf(n, withIds) == [i \in 1..n |-> RowAt(i, withIds)]

\* data arguments: flat rows when the call is to process them, otherwise
\* records in AT format, bare or under a top-level "records"
DataInputs(proc, new) ==
    IF proc
    THEN { [wrapped |-> FALSE, items |-> RowsOf(n, w)] : n \in 0..MaxRecords, w \in BOOLEAN }
    ELSE { [wrapped |-> w, items |-> process_records_for_at(RowsOf(n, ~new), TRUE, new).records] :
             n \in 0..MaxRecords, w \in BOOLEAN }

IdInputs == { [i \in 1..n |-> IdValue(i)] : n \in 0..MaxRecords }

\* the service's answers to a page request
Page1 == <<[id |-> IdValue(1), fields |-> [a |-> Tagged("NaN"), b |-> None]]>>
Page2 == <<[id |-> IdValue(2), fields |-> [a |-> Tagged("Foo")]],
           [id |-> IdValue(3), fields |-> [b |-> Scalar("str", "x")]]>>
\* a response: status, and of its body whether it parses as JSON ("json",
\* "not_json"), its "records", its "offset" ("None" when it has none) and
\* what it has under "error": "none" for no such entry, "typed" for an
\* object with type and message, "raw" for anything else
Response(status, body, recs, off) ==
    [status |-> status, body |-> body, records |-> recs, offset |-> off, error |-> "none"]
ErrorResponse(status, err) ==
    [Response(status, "json", <<>>, "None") EXCEPT !.error = err]
Failures ==
    { ErrorResponse(422, "typed"), ErrorResponse(403, "raw"),
      Response(404, "json", <<>>, "None"), Response(500, "not_json", <<>>, "None") }
PageResponses ==
    { Response(200, "json", Page1, "itrA"),
      Response(200, "json", Page2, "itrB"),
      Response(200, "json", Page2, "None"),
      Response(200, "json", Page1, ""),
      Response(200, "json", <<>>, "None") } \cup Failures

\* the service's answers to a chunk: the records of the chunk with their
\* identifiers, or fewer of them, or a failure
Answered(rec, i) ==
    IF "fields" \in DOMAIN rec
    THEN [id |-> IF "id" \in DOMAIN rec THEN rec.id ELSE IdValue(100 + i), fields |-> rec.fields]
    ELSE [id |-> rec, fields |-> <<>>]
ChunkResponses(chunk, at) ==
    LET all == [i \in 1..Len(chunk) |-> Answered(chunk[i], at + i)]
    IN  { Response(200, "json", all, "None"),
          Response(200, "json", SubSeq(all, 1, Len(all) - 1), "None") } \cup Failures

\* Python values of two types that never compare equal
Str(s) == [type |-> "str", v |-> s]
Bytes(s) == [type |-> "bytes", v |-> s]

\* r.content, as text
BodyText(r) ==
    CASE r.body = "not_json" -> "error"
      [] r.error = "typed" -> "{error: {type: .., message: ..}}"
      [] r.error = "raw" -> "{error: ..}"
      [] OTHER -> "{records: .., offset: ..}"

\* what iterating the Response r yields: its body in chunks of bytes (the
\* bodies of the model fit in one chunk)
BodyChunks(r) == { Bytes(BodyText(r)) }

\* the two things the code has in hand for a response r: the Response
\* object r itself, and the dict r.json() gives for a JSON body
AsObject(r) == [pytype |-> "Response", of |-> r]
AsParsed(r) == [pytype |-> "dict", of |-> r]

\* "error" in x: a key test for a dict; Response has no __contains__, so for
\* it the test iterates the object and compares each chunk with the str
ErrorIn(x) ==
    IF x.pytype = "dict"
    THEN x.of.error # "none"
    ELSE \E c \in BodyChunks(x.of) : c = Str("error")

TypedMessage == "Oops! <type> Error: <message>"
FallbackMessage == "Oops! Error: <error>"

\* _identify_errors(x): the messages it gives to logger.error and the
\* exception it ends with ("none" when it returns).  x["error"]["type"] and
\* x["error"]["message"] succeed for a dict with a typed error; for any other
\* dict they raise and the except branch logs x["error"]; a Response cannot
\* be subscripted at all, so the except branch raises TypeError in its turn.
identify_errors(x) ==
    IF ~ErrorIn(x)
    THEN [logged |-> <<>>, error |-> "none"]
    ELSE IF x.pytype = "dict"
    THEN [logged |-> <<IF x.of.error = "typed" THEN TypedMessage ELSE FallbackMessage>>,
          error |-> "none"]
    ELSE [logged |-> <<>>, error |-> "TypeError"]

\* whether the call runs _identify_errors on a response that is not 200:
\* get and delete always, write and update when the parsed body has an
\* error entry
Identifies(op, r) == op \in {"get", "delete"} \/ ErrorIn(AsParsed(r))

\* the messages logged on a response that is not 200: every operation hands
\* _identify_errors the Response object r
LoggedOn(op, r) ==
    IF op \in {"write", "update"} /\ r.body = "not_json" THEN <<>>
    ELSE IF Identifies(op, r) THEN identify_errors(AsObject(r)).logged
    ELSE <<>>

\* what a call raises on a response that is not 200: write and update parse
\* the body first (r.json()), get and delete do not
FailureError(op, r) ==
    IF op \in {"write", "update"} /\ r.body = "not_json"
    THEN "JSONDecodeError"
    ELSE IF Identifies(op, r) /\ identify_errors(AsObject(r)).error # "none"
    THEN identify_errors(AsObject(r)).error
    ELSE "RuntimeError"

\* the resolved base and process mode stored back into the client
KeepDefaults_Leaks(base, proc) ==
    /\ self_base' = ResolveBase(base)
    /\ self_process' = ResolveProcess(proc)

\* `base = ...` and `process = ...` bind the locals of the call; self._base
\* and self._process are read, never assigned, outside __init__
KeepDefaults(base, proc) == UNCHANGED <<self_base, self_process>>

\* no call in progress: the locals of the last call are gone
NoCall ==
    /\ pc = "idle"
    /\ args = NoArgs
    /\ url = NoUrl
    /\ process = FALSE
    /\ params = NoParams
    /\ offset = "None"
    /\ chunks = <<>>
    /\ ci = 0
    /\ records = <<>>
    /\ sent = <<>>
    /\ responses = <<>>
    /\ logged = <<>>
    /\ result = NoResult

\* ---- __init__ ----
\* lines 55-78, for each choice of cache_token, base and process
ClientInit ==
    /\ cache_token \in BOOLEAN
    /\ self_base \in {"", "appDefault"}
    /\ self_process \in BOOLEAN
    /\ headers = BaseHeaders
    /\ NoCall

\* a client constructed with the defaults and a base, never called
ClientUnused ==
    /\ cache_token = FALSE
    /\ self_base = "appDefault"
    /\ self_process = FALSE
    /\ headers = BaseHeaders
    /\ NoCall

\* the client is not inside a call
Callable == pc = "idle"

\* the call is over and control is back with the caller
Finish ==
    /\ pc \in {"returned", "raised"}
    /\ pc' = "idle"
    /\ args' = NoArgs
    /\ url' = NoUrl
    /\ process' = FALSE
    /\ params' = NoParams
    /\ offset' = "None"
    /\ chunks' = <<>>
    /\ ci' = 0
    /\ records' = <<>>
    /\ sent' = <<>>
    /\ responses' = <<>>
    /\ logged' = <<>>
    /\ result' = NoResult
    /\ UNCHANGED <<cache_token, self_base, self_process, headers>>
    /\ UNCHANGED <<codecVars, matchVars>>

\* the call raised before its first request
RaiseEarly(a, error) ==
    /\ pc' = "raised"
    /\ args' = a
    /\ url' = NoUrl
    /\ process' = FALSE
    /\ params' = NoParams
    /\ offset' = "None"
    /\ chunks' = <<>>
    /\ ci' = 0
    /\ records' = <<>>
    /\ sent' = <<>>
    /\ responses' = <<>>
    /\ logged' = <<>>
    /\ result' = [status |-> error, value |-> <<>>]

\* ---- get ----
\* lines 273-287: from the call to the first test of `while offset`
CallGet ==
    /\ Callable
    /\ \E view \in {"", "viwGrid"}, base \in {"", "appCall"},
          proc \in {"None", "True", "False"}, dir \in BOOLEAN :
        LET a == [op |-> "get", view |-> view, base |-> base, process |-> proc,
                  direct |-> dir]
            direct == ResolveDirect(dir)
        IN  /\ KeepDefaults(base, proc)
            /\ IF ResolveBase(base) = ""
               THEN RaiseEarly(a, "AttributeError") /\ UNCHANGED headers
               ELSE
                 /\ pc' = "get"
                 /\ args' = a
                 /\ url' = [endpoint |-> IF direct THEN "at" ELSE "cache",
                            base |-> ResolveBase(base)]
                 /\ process' = ResolveProcess(proc)
                 /\ headers' = IF direct THEN headers ELSE headers \cup CacheHeader
                 /\ params' = [view |-> view, offset |-> ""]
                 /\ offset' = "True"
                 /\ chunks' = <<>>
                 /\ ci' = 0
                 /\ records' = <<>>
                 /\ sent' = <<>>
                 /\ responses' = <<>>
                 /\ logged' = <<>>
                 /\ result' = NoResult
    /\ UNCHANGED cache_token
    /\ UNCHANGED <<codecVars, matchVars>>

\* lines 288-303: one iteration of `while offset`, and the return when the
\* loop ends with it
GetPage ==
    /\ pc = "get"
    /\ LET p == PageParams(params, offset)
           req == [method |-> "GET", endpoint |-> url.endpoint, base |-> url.base,
                   headers |-> headers, params |-> p, body |-> <<>>]
       IN  \E r \in PageResponses :
            \* the service ends the listing at the last page the model follows
            /\ Len(sent) + 1 >= MaxPages => ~(r.status = 200 /\ Truthy(r.offset))
            /\ params' = p
            /\ sent' = Append(sent, req)
            /\ responses' = Append(responses, r)
            /\ IF IsFailure(r.status)
               THEN /\ pc' = "raised"
                    /\ logged' = logged \o LoggedOn("get", r)
                    /\ result' = [status |-> FailureError("get", r), value |-> <<>>]
                    /\ UNCHANGED <<records, offset>>
               ELSE /\ records' = Extend(records, r.records)
                    /\ UNCHANGED logged
                    /\ offset' = r.offset
                    /\ IF Truthy(r.offset)
                       THEN pc' = "get" /\ UNCHANGED result
                       ELSE /\ pc' = "returned"
                            /\ result' =
                                 IF process
                                 THEN process_records_from_at(Extend(records, r.records), TRUE)
                                 ELSE [status |-> "ok", value |-> Extend(records, r.records)]
    /\ UNCHANGED <<cache_token, self_base, self_process, headers, args, url, process,
                   chunks, ci>>
    /\ UNCHANGED <<codecVars, matchVars>>

\* ---- write, update, delete ----
\* if type(data) == dict: data = data["records"]
Unwrap(data) == data.items

\* the call, from its first line to the first chunk of the for loop (or to
\* the return, when there is no chunk)
StartChunks(a, proc, data) ==
    /\ args' = a
    /\ url' = [endpoint |-> "at", base |-> ResolveBase(a.base)]
    /\ process' = proc
    /\ params' = NoParams
    /\ offset' = "None"
    /\ chunks' = ChunksOf(data, ChunkSize)
    /\ ci' = 0
    /\ records' = <<>>
    /\ sent' = <<>>
    /\ responses' = <<>>
    /\ logged' = <<>>
    /\ IF data = <<>>
       THEN pc' = "returned" /\ result' = [status |-> "ok", value |-> <<>>]
       ELSE pc' = a.op /\ result' = NoResult

\* lines 341-348
CallWrite ==
    /\ Callable
    /\ \E base \in {"", "appCall"}, proc \in {"None", "True", "False"} :
       \E data \in DataInputs(ResolveProcess(proc), TRUE) :
        LET a == [op |-> "write", base |-> base, process |-> proc, data |-> data]
            enc == process_records_for_at(data.items, FALSE, TRUE)
        IN  /\ KeepDefaults(base, proc)
            /\ IF ResolveBase(base) = ""
               THEN RaiseEarly(a, "AttributeError")
               ELSE StartChunks(a, ResolveProcess(proc),
                                IF ResolveProcess(proc) THEN enc.records ELSE Unwrap(data))
    /\ UNCHANGED <<cache_token, headers>>
    /\ UNCHANGED <<codecVars, matchVars>>

\* lines 406-415
CallUpdate ==
    /\ Callable
    /\ \E base \in {"", "appCall"}, proc \in {"None", "True", "False"}, kn \in BOOLEAN :
       \E data \in DataInputs(ResolveProcess(proc), FALSE) :
        LET a == [op |-> "update", base |-> base, process |-> proc, keep_none |-> kn,
                  data |-> data]
            enc == process_records_for_at(data.items, kn, FALSE)
        IN  /\ KeepDefaults(base, proc)
            /\ IF ResolveBase(base) = ""
               THEN RaiseEarly(a, "AttributeError")
               ELSE IF ResolveProcess(proc) /\ enc.status # "ok"
               THEN RaiseEarly(a, enc.status)
               ELSE StartChunks(a, ResolveProcess(proc),
                                IF ResolveProcess(proc) THEN enc.records ELSE Unwrap(data))
    /\ UNCHANGED <<cache_token, headers>>
    /\ UNCHANGED <<codecVars, matchVars>>

\* lines 458-461
CallDelete ==
    /\ Callable
    /\ \E base \in {"", "appCall"}, ids \in IdInputs :
        LET a == [op |-> "delete", base |-> base, list_of_ids |-> ids]
        IN  /\ KeepDefaults(base, "None")
            /\ IF ResolveBase(base) = ""
               THEN RaiseEarly(a, "AttributeError")
               ELSE StartChunks(a, FALSE, ids)
    /\ UNCHANGED <<cache_token, headers>>
    /\ UNCHANGED <<codecVars, matchVars>>

\* a loop that hands out the first chunk at every iteration
NextChunk_Repeats(cs, done) == cs[1]

\* for chunk in chunks: the chunk that follows the ones already taken
NextChunk(cs, done) == cs[done + 1]

\* one iteration of `for chunk in chunks`, and the return when it was the
\* last
ChunkStep(op, method) ==
    /\ pc = op
    /\ LET chunk == NextChunk(chunks, ci)
           req == [method |-> method, endpoint |-> url.endpoint, base |-> url.base,
                   headers |-> headers, params |-> NoParams, body |-> chunk]
       IN  \E r \in ChunkResponses(chunk, ci * ChunkSize) :
            /\ ci' = ci + 1
            /\ sent' = Append(sent, req)
            /\ responses' = Append(responses, r)
            /\ IF IsFailure(r.status)
               THEN /\ pc' = "raised"
                    /\ logged' = logged \o LoggedOn(op, r)
                    /\ result' = [status |-> FailureError(op, r), value |-> <<>>]
                    /\ UNCHANGED records
               ELSE /\ records' = Extend(records, r.records)
                    /\ UNCHANGED logged
                    /\ IF ci + 1 < Len(chunks)
                       THEN pc' = op /\ UNCHANGED result
                       ELSE /\ pc' = "returned"
                            /\ result' = [status |-> "ok", value |-> Extend(records, r.records)]
    /\ UNCHANGED <<cache_token, self_base, self_process, headers, args, url, process,
                   params, offset, chunks>>
    /\ UNCHANGED <<codecVars, matchVars>>

\* lines 349-361
WriteChunk == args.op = "write" /\ ChunkStep("write", "POST")

\* lines 416-428
UpdateChunk == args.op = "update" /\ ChunkStep("update", "PATCH")

\* lines 462-472
DeleteChunk == args.op = "delete" /\ ChunkStep("delete", "DELETE")

(***************************************************************************)
(* The specifications.                                                     *)
(***************************************************************************)
vars == <<codecVars, matchVars, clientVars>>

Init == CodecIdle /\ MatchIdle /\ ClientInit

Next ==
    \/ Finish
    \/ CallGet
    \/ GetPage
    \/ CallWrite
    \/ WriteChunk
    \/ CallUpdate
    \/ UpdateChunk
    \/ CallDelete
    \/ DeleteChunk

Spec == Init /\ [][Next]_vars

CodecNext == CallForAt \/ CallFromAtOnEncoded \/ CallFromAt

CodecInit == CodecIdle /\ MatchIdle /\ ClientUnused

SpecCodec == CodecInit /\ [][CodecNext]_vars

MatchNext == CallMatch \/ MatchIter \/ MatchReturn

MatchInit == CodecIdle /\ MatchIdle /\ ClientUnused

SpecMatch == MatchInit /\ [][MatchNext]_vars

(***************************************************************************)
(* Properties of the transcoder, checked under SpecCodec.                  *)
(***************************************************************************)
IsScalar(v) == v.kind \in {"null", "int", "str", "bool", "float"}
AllScalar(R) == \A i \in 1..Len(R) : \A k \in DOMAIN R[i] : IsScalar(R[i][k])
NonNullPart(row) == [k \in {x \in DOMAIN row : row[x].kind # "null"} |-> row[k]]

\* the wire form the service documents for a value
WireForm(v) ==
    CASE v = PosInf -> [kind |-> "dict", v |-> "Infinity", sv |-> TRUE, extra |-> FALSE]
      [] v = NegInf -> [kind |-> "dict", v |-> "-Infinity", sv |-> TRUE, extra |-> FALSE]
      [] v = NaN -> [kind |-> "dict", v |-> "NaN", sv |-> TRUE, extra |-> FALSE]
      [] OTHER -> v

\* the local form of a wire value: only an object with exactly the key
\* specialValue and a recognized tag stands for a non-finite float
LocalForm(v) ==
    IF v.kind = "dict" /\ v.sv /\ ~v.extra /\ v.v \in {"Infinity", "-Infinity", "NaN"}
    THEN [kind |-> "float", sv |-> FALSE, extra |-> FALSE,
          v |-> CASE v.v = "Infinity" -> "inf" [] v.v = "-Infinity" -> "-inf" [] OTHER -> "nan"]
    ELSE v

\* C4 as stated: with the default arguments of both functions, decoding the
\* records encoded from scalar rows R with new=True succeeds and reproduces R
\* up to the reserved key at_record_id.
C4_RoundTripAsStated ==
    (cpc = "roundtrip" /\ AllScalar(rowsIn) /\ ~keepNone /\ keepId) =>
        /\ decOut.status = "ok"
        /\ Len(decOut.value) = Len(rowsIn)
        /\ \A i \in 1..Len(rowsIn) :
            Without(decOut.value[i], at_rec_id) = Without(rowsIn[i], at_rec_id)

\* C4 amended: for scalar rows R encoded with new=True, decoding with
\* keep_id=False succeeds and yields, row by row, R itself when keep_none=True
\* and R without its None-valued entries when keep_none=False; decoding with
\* keep_id=True raises KeyError for every non-empty R (new records have no id).
C4_RoundTrip ==
    (cpc = "roundtrip" /\ AllScalar(rowsIn)) =>
        IF keepId /\ rowsIn # <<>>
        THEN decOut.status = "KeyError"
        ELSE /\ decOut.status = "ok"
             /\ Len(decOut.value) = Len(rowsIn)
             /\ \A i \in 1..Len(rowsIn) :
                    decOut.value[i] = IF keepNone THEN rowsIn[i] ELSE NonNullPart(rowsIn[i])

C4_Witness ==
    /\ cpc = "roundtrip"
    /\ rowsIn = <<[a |-> NaN, b |-> None, at_record_id |-> Scalar("str", "recB")]>>
    /\ keepNone /\ ~keepId
    /\ decOut.status = "ok"
    /\ decOut.value = rowsIn

\* C5 as stated: decoding keeps every field of every record under its key; a
\* field that is exactly {"specialValue": tag} with a recognized tag becomes
\* the non-finite float, every other value is unchanged.
C5_DecodeKeepsEveryField ==
    (cpc = "decoded" /\ decOut.status = "ok") =>
        \A i \in 1..Len(decIn) : \A k \in DOMAIN decIn[i].fields :
            /\ k \in DOMAIN decOut.value[i]
            /\ decOut.value[i][k] = LocalForm(decIn[i].fields[k])

\* C6: every emitted field is the wire form of the row's value under the same
\* key (the three non-finite floats tagged, everything else unchanged), every
\* non-None entry is emitted (the reserved key as id when new=False), and no
\* emitted field is a raw non-finite float.
C6_EncodeSpecialValues ==
    (cpc = "encoded" /\ encOut.status = "ok") =>
        /\ Len(encOut.records) = Len(rowsIn)
        /\ \A i \in 1..Len(rowsIn) :
            LET row == rowsIn[i]
                fields == encOut.records[i].fields
            IN  /\ \A k \in DOMAIN fields :
                        /\ k \in DOMAIN row
                        /\ fields[k] = WireForm(row[k])
                        /\ fields[k] \notin NonFinite
                /\ \A k \in DOMAIN row :
                        (row[k] # None /\ (isNew \/ k # at_rec_id)) => k \in DOMAIN fields

C6_Witness ==
    /\ cpc = "encoded"
    /\ rowsIn = <<[a |-> NegInf, b |-> PosInf]>>
    /\ isNew
    /\ encOut.status = "ok"
    /\ encOut.records[1].fields = [a |-> Tagged("-Infinity"), b |-> Tagged("Infinity")]

\* what C7 says of one row and the fields emitted for it, the keys in `skip`
\* aside
NoneHandled(row, fields, keep_none, skip) ==
    \A k \in DOMAIN row \ skip :
        IF row[k] = None
        THEN (k \in DOMAIN fields <=> keep_none) /\ (k \in DOMAIN fields => fields[k] = None)
        ELSE k \in DOMAIN fields /\ fields[k] = WireForm(row[k])

\* rows that contain null-valued entries
RowsHaveNone(R) ==
    R # <<>> /\ \A i \in 1..Len(R) : \E k \in DOMAIN R[i] \ {at_rec_id} : R[i][k] = None

LacksRecId(row, keep_none) ==
    at_rec_id \notin DOMAIN row \/ (row[at_rec_id] = None /\ ~keep_none)

\* C8: with new=False, if some row lacks the reserved key (or lost it because
\* it was None and keep_none=False) the call raises KeyError and returns
\* nothing; otherwise it returns {"records": [...]} with one record per row
\* in input order, each {id: the row's at_record_id, fields: the remaining
\* kept entries}, the reserved key never among the fields.
C8_UpdateFormat ==
    (cpc = "encoded" /\ ~isNew) =>
        IF \E i \in 1..Len(rowsIn) : LacksRecId(rowsIn[i], keepNone)
        THEN encOut.status = "KeyError" /\ encOut.records = <<>>
        ELSE /\ encOut.status = "ok"
             /\ encOut.wrapped
             /\ Len(encOut.records) = Len(rowsIn)
             /\ \A i \in 1..Len(rowsIn) :
                LET row == rowsIn[i]
                    rec == encOut.records[i]
                IN  /\ DOMAIN rec = {"id", "fields"}
                    /\ rec.id = row[at_rec_id]
                    /\ at_rec_id \notin DOMAIN rec.fields
                    /\ DOMAIN rec.fields =
                         {k \in DOMAIN row \ {at_rec_id} : keepNone \/ row[k] # None}
                    /\ \A k \in DOMAIN rec.fields : rec.fields[k] = WireForm(row[k])

C8_Witness ==
    /\ cpc = "encoded"
    /\ ~isNew /\ ~keepNone
    /\ rowsIn = <<[a |-> NaN, b |-> None, at_record_id |-> Scalar("str", "recB")],
                  [a |-> Scalar("int", "1"), at_record_id |-> Scalar("str", "recA")]>>
    /\ encOut.status = "ok"
    /\ encOut.wrapped
    /\ encOut.records = <<[id |-> Scalar("str", "recB"), fields |-> [a |-> Tagged("NaN")]],
                          [id |-> Scalar("str", "recA"), fields |-> [a |-> Scalar("int", "1")]]>>

(***************************************************************************)
(* Properties of the HTTP operations, checked under Spec.                  *)
(***************************************************************************)
RECURSIVE Flatten(_)
Flatten(ss) == IF ss = <<>> THEN <<>> ELSE Head(ss) \o Flatten(Tail(ss))

Bodies == [i \in 1..Len(sent) |-> sent[i].body]
ReceivedRecords == [i \in 1..Len(responses) |-> responses[i].records]

\* a write, update or delete call that got as far as its chunk loop
InChunkedCall ==
    /\ pc \in {"write", "update", "delete", "returned", "raised"}
    /\ args.op \in {"write", "update", "delete"}
    /\ result.status \notin {"AttributeError", "KeyError"}

\* the sequence S the call is to send: the identifiers of delete, the records
\* given to write and update (under "records" or bare), and for rows given
\* with process=True the records they are transcoded to
ToSend ==
    CASE args.op = "delete" -> args.list_of_ids
      [] args.op = "write" /\ process -> process_records_for_at(args.data.items, FALSE, TRUE).records
      [] args.op = "update" /\ process ->
            process_records_for_at(args.data.items, args.keep_none, FALSE).records
      [] OTHER -> args.data.items

\* C1: the bodies of the requests issued so far concatenate to a prefix of S,
\* and to S itself once the call has returned; every request carries between
\* 1 and 10 entries, every request but the last carries exactly 10, and a
\* request with fewer than 10 is the one that completes S; for an empty S no
\* request is issued and the empty list is returned.
C1_Chunking ==
    InChunkedCall =>
        LET S == ToSend
            B == Flatten(Bodies)
        IN  /\ Len(B) <= Len(S)
            /\ B = SubSeq(S, 1, Len(B))
            /\ \A i \in 1..Len(sent) :
                /\ Len(sent[i].body) \in 1..10
                /\ i < Len(sent) => Len(sent[i].body) = 10
                /\ Len(sent[i].body) < 10 => Len(B) = Len(S)
            /\ pc = "returned" => B = S
            /\ S = <<>> => sent = <<>> /\ pc = "returned" /\ result.value = <<>>

C1_Witness ==
    /\ pc = "returned"
    /\ args.op = "update"
    /\ Len(ToSend) = 21
    /\ Len(sent) = 3
    /\ Len(sent[3].body) = 1
    /\ Flatten(Bodies) = ToSend

\* the response carries an offset field ("None" is what json_object.get
\* gives for a response without one)
HasOffsetField(r) == r.offset # "None"
\* the response carries an offset that is not empty
HasNonEmptyOffset(r) == r.offset # "None" /\ r.offset # ""

\* C2 as stated: the first request has no offset parameter; every request
\* but the last was answered 200 with an offset field; after a 200 answer
\* with an offset field a further request follows; get returns only after an
\* answer without offset field, with the concatenation of the pages' records.
C2_PaginationAsStated ==
    (args.op = "get" /\ pc \in {"get", "returned", "raised"}) =>
        /\ Len(sent) >= 1 => sent[1].params.offset = ""
        /\ \A i \in 1..Len(responses) :
            /\ (responses[i].status = 200 /\ HasOffsetField(responses[i]))
                    => (i < Len(sent) \/ pc = "get")
            /\ i < Len(sent) => (responses[i].status = 200 /\ HasOffsetField(responses[i]))
        /\ pc = "get" /\ sent # <<>> => HasOffsetField(responses[Len(responses)])
        /\ pc = "returned" =>
            /\ ~HasOffsetField(responses[Len(responses)])
            /\ ~process => result.value = Flatten(ReceivedRecords)

\* C2 amended: the first request has no offset parameter; a further page
\* request is issued after every successful response whose offset is present
\* and non-empty, and after no other; get stops exactly when a successful
\* response omits the offset field or carries an empty (falsy) one, and then
\* returns the concatenation of the pages' records.
C2_Pagination ==
    (args.op = "get" /\ pc \in {"get", "returned", "raised"}) =>
        /\ Len(sent) >= 1 => sent[1].params.offset = ""
        /\ \A i \in 1..Len(responses) :
            /\ (responses[i].status = 200 /\ HasNonEmptyOffset(responses[i]))
                    => (i < Len(sent) \/ pc = "get")
            /\ i < Len(sent) => (responses[i].status = 200 /\ HasNonEmptyOffset(responses[i]))
        /\ pc = "get" /\ sent # <<>> => HasNonEmptyOffset(responses[Len(responses)])
        /\ pc = "returned" =>
            /\ responses[Len(responses)].status = 200
            /\ ~HasNonEmptyOffset(responses[Len(responses)])
            /\ ~process => result.value = Flatten(ReceivedRecords)

C2_Witness ==
    /\ args.op = "get"
    /\ pc = "returned"
    /\ ~process
    /\ Len(sent) = 2
    /\ sent[1].params.offset = ""
    /\ responses[1].offset = "itrA"
    /\ sent[2].params.offset = "itrA"
    /\ responses[2].offset = "None"
    /\ result.value = Page1 \o Page2

\* C3: requests and responses pair up; a response that is not 200 is the
\* last one of its call (no request follows it), the call has raised and its
\* result carries no value; a call that returned saw only 200.
C3_FailureEndsCall ==
    (pc # "idle" /\ args.op \in {"get", "write", "update", "delete"}) =>
        /\ Len(responses) = Len(sent)
        /\ \A i \in 1..Len(responses) :
            responses[i].status # 200 =>
                /\ i = Len(sent)
                /\ pc = "raised"
                /\ result.status \in {"RuntimeError", "JSONDecodeError"}
                /\ result.value = <<>>
        /\ pc = "returned" => \A i \in 1..Len(responses) : responses[i].status = 200
        /\ pc = "raised" => result.value = <<>>

C3_Witness ==
    /\ args.op = "write"
    /\ Len(args.data.items) = 15
    /\ pc = "raised"
    /\ Len(sent) = 2
    /\ responses[1].status = 200
    /\ responses[1].records # <<>>
    /\ responses[2].status = 422
    /\ result = [status |-> "RuntimeError", value |-> <<>>]

(***************************************************************************)
(* Properties of match_at_rec_id, checked under SpecMatch.                 *)
(***************************************************************************)
\* the entries of data_w_id that agree with the row object o on every key
Agreeing(o) ==
    { j \in DOMAIN data_w_id : \A k \in keys : data_w_id[j][k] = heap[o][k] }

Occurs(o, list) == \E i \in DOMAIN list : list[i] = o

\* C9 as stated: in the result, every row of data_wo_id with no agreeing
\* entry is in not_updated, not in updated, and its key values are in
\* missing_id; every row with exactly one agreeing entry is in updated and
\* carries that entry's at_record_id.
C9_EveryRowClassified ==
    mpc = "returned" =>
        \A o \in DOMAIN data_wo_id :
            /\ Agreeing(o) = {} =>
                /\ Occurs(o, not_updated)
                /\ ~Occurs(o, updated)
                /\ Occurs(UidOf(heap[o], keys), missing_id)
            /\ Cardinality(Agreeing(o)) = 1 =>
                /\ Occurs(o, updated)
                /\ \A j \in Agreeing(o) : heap[o].rid = data_w_id[j].rid

\* two entries of data_w_id with identical values for every key
DuplicateKeys ==
    \E i, j \in DOMAIN data_w_id : i # j /\ \A k \in keys : data_w_id[i][k] = data_w_id[j][k]

C11_Routing ==
    \A i \in 1..Len(sent) :
        /\ (args.op = "get" /\ ~cache_token) => sent[i].endpoint = "at"
        /\ (args.op = "get" /\ cache_token /\ args.direct) => sent[i].endpoint = "at"
        /\ (args.op = "get" /\ cache_token /\ ~args.direct) => sent[i].endpoint = "cache"
        /\ args.op \in {"write", "update", "delete"} => sent[i].endpoint = "at"

C11_Witness ==
    /\ args.op = "get"
    /\ ~cache_token
    /\ ~args.direct
    /\ Len(sent) = 2
    /\ sent[1].endpoint = "at"
    /\ sent[2].endpoint = "at"

\* C12 as stated: a request carries X-Mw-Bearer exactly when it is a page
\* request of get sent to the caching endpoint, and every request sent to the
\* primary endpoint carries Authorization and Content-Type and nothing else,
\* whatever calls the client served before.
C12_CacheHeaderOnlyToCache ==
    \A i \in 1..Len(sent) :
        /\ ("X-Mw-Bearer" \in sent[i].headers)
                <=> (sent[i].method = "GET" /\ sent[i].endpoint = "cache")
        /\ sent[i].endpoint = "at" => sent[i].headers = {"Authorization", "Content-Type"}

C14_BaseResolution ==
    args.op \in {"get", "write", "update", "delete"} =>
        /\ \A i \in 1..Len(sent) :
            /\ args.base # "" => sent[i].base = args.base
            /\ args.base = "" => sent[i].base = self_base /\ self_base # ""
        /\ (args.base = "" /\ self_base = "") =>
            /\ pc = "raised"
            /\ result.status = "AttributeError"
            /\ sent = <<>>
            /\ responses = <<>>

C14_Witness ==
    /\ args.op = "update"
    /\ args.base = ""
    /\ self_base = ""
    /\ Len(args.data.items) = 3
    /\ pc = "raised"
    /\ result.status = "AttributeError"
    /\ sent = <<>>

C16_ErrorIsLogged ==
    \A i \in 1..Len(responses) :
        (responses[i].status # 200 /\ responses[i].body = "json"
            /\ responses[i].error # "none") =>
                /\ pc = "raised"
                /\ result.status = "RuntimeError"
                /\ responses[i].error = "typed" => logged = <<TypedMessage>>
                /\ responses[i].error = "raw" => logged = <<FallbackMessage>>

\* C17: in a get, every page request after the first carries as offset the
\* offset of the response to the request just before it, which is a
\* non-empty string; and every page request, the first included, carries the
\* view of the call when one was given (and none otherwise).
C17_OffsetChain ==
    args.op = "get" =>
        \A i \in 1..Len(sent) :
            /\ i > 1 =>
                /\ sent[i].params.offset = responses[i - 1].offset
                /\ sent[i].params.offset \notin {"", "None", "True"}
            /\ sent[i].params.view = args.view

C17_Witness ==
    /\ args.op = "get"
    /\ args.view = "viwGrid"
    /\ Len(sent) = 3
    /\ responses[1].offset = "itrB"
    /\ responses[2].offset = "itrA"
    /\ sent[1].params = [view |-> "viwGrid", offset |-> ""]
    /\ sent[2].params = [view |-> "viwGrid", offset |-> "itrB"]
    /\ sent[3].params = [view |-> "viwGrid", offset |-> "itrA"]

\* C18: in write, update and delete the i-th request issued carries the i-th
\* chunk, so chunks go out in order and none twice; a request is issued only
\* when every earlier one was answered 200; and when the call has raised on
\* the response to chunk k, the requests issued are those for chunks 1..k and
\* no other.
C18_SequentialChunks ==
    InChunkedCall =>
        /\ Len(sent) <= Len(chunks)
        /\ Len(responses) = Len(sent)
        /\ ci = Len(sent)
        /\ \A i \in 1..Len(sent) :
            /\ sent[i].body = chunks[i]
            /\ i < Len(sent) => responses[i].status = 200
        /\ pc = "raised" =>
            /\ Len(sent) >= 1
            /\ responses[Len(sent)].status # 200
            /\ Bodies = SubSeq(chunks, 1, Len(sent))
        /\ pc \in {"write", "update", "delete"} =>
            /\ Len(sent) < Len(chunks)
            /\ \A i \in 1..Len(sent) : responses[i].status = 200

C18_Witness ==
    /\ args.op = "update"
    /\ pc = "raised"
    /\ Len(chunks) = 3
    /\ Len(sent) = 2
    /\ sent[1].body = chunks[1]
    /\ sent[2].body = chunks[2]
    /\ responses[1].status = 200
    /\ responses[2].status = 403

(***************************************************************************)
(* The result of match_at_rec_id as a partition, checked under SpecMatch.  *)
(***************************************************************************)
\* how many times the row object o is in the list
CountIn(o, list) == Cardinality({ i \in DOMAIN list : list[i] = o })

\* the position of the row object o in the caller's list
PositionOf(o) == CHOOSE i \in DOMAIN data_wo_id : data_wo_id[i] = o

\* the list holds its rows in the order data_wo_id has them
InCallerOrder(list) ==
    \A i, j \in DOMAIN list : i < j => PositionOf(list[i]) < PositionOf(list[j])

\* C19 as stated: when the call has returned, every row of data_wo_id is in
\* exactly one of updated and not_updated, and there once; both lists hold
\* their rows in the order of data_wo_id; missing_id has one entry per row of
\* not_updated, in the same order; data_wo_id still lists the same rows in
\* the same order and data_w_id still holds the rows it was given.
C19_ResultIsPartition ==
    mpc = "returned" =>
        /\ \A o \in DOMAIN heap : CountIn(o, updated) + CountIn(o, not_updated) = 1
        /\ InCallerOrder(updated)
        /\ InCallerOrder(not_updated)
        /\ Len(missing_id) = Len(not_updated)
        /\ \A i \in DOMAIN not_updated : missing_id[i] = UidOf(heap[not_updated[i]], keys)
        /\ data_wo_id = [i \in 1..Len(heap) |-> i]
        /\ data_w_id \in WithIdInputs

(***************************************************************************)
(* The defaults of the client across calls, checked under Spec.            *)
(***************************************************************************)
\* C20: no step of any call, returning or raising, changes the default base
\* or the default process mode of the client, so they stay what __init__ made
\* them; and a call that starts without a base, or without a process mode,
\* runs on the default the client holds at that moment, whatever the calls
\* before it were given.
C20_OverridesDoNotLeak ==
    [][ /\ self_base' = self_base
        /\ self_process' = self_process
        /\ (pc = "idle" /\ pc' \in {"get", "write", "update", "delete", "returned"}) =>
            /\ args'.base = "" => url'.base = self_base
            /\ (args'.op # "delete" /\ args'.process = "None") => process' = self_process
      ]_vars

C20_Witness ==
    /\ pc = "returned"
    /\ args.op = "update"
    /\ args.base = "appCall"
    /\ args.process = "True"
    /\ url.base = "appCall"
    /\ process
    /\ Len(sent) = 2
    /\ self_base = "appDefault"
    /\ ~self_process

====
